---- MODULE Spec2Model ----
(***************************************************************************)
(* Authentication, session and membership layer of the SaaS Platform API   *)
(* (src/main.py), modelled as request handlers running in concurrent       *)
(* worker slots over one document store.  Every store call (find_one,      *)
(* create_document) is one step; the computation between two store calls   *)
(* belongs to the step of the store call that follows it.  The fields of   *)
(* an organization request are inputs nothing but the handler reads, so    *)
(* each is drawn at the step that first reads it; a handler's frame        *)
(* (request, locals) is gone once it has returned or raised, and only the  *)
(* response is left.                                                       *)
(*                                                                         *)
(* Values.  A string is a sequence of symbols.  Symbol 0 stands for the    *)
(* seven characters "Bearer "; every other symbol k >= 1 stands for the    *)
(* block of characters drawn from `secrets` as its k-th value.  A token    *)
(* is the one-symbol string <<k>>.  A salt is a number, 0 being the empty  *)
(* string.  An optional value (Python None) is a set: {} is None, {v} is   *)
(* the value v.                                                            *)
(***************************************************************************)
EXTENDS Integers, Sequences, FiniteSets, TLC

\* ------------------------------------------------------------------ bounds
MaxDraws == 4       \* values drawn from `secrets` in one run
MaxOrgs == 1        \* rows of the organization collection
MaxMembers == 3     \* rows of the membership collection

Workers == {"w1", "w2"}
Emails == {"ada@x.com", "bob@x.com"}
Passwords == {"secret123", "hunter2"}
RoleInputs == {"owner", "admin", "member", "guest"}
Bearer == 0
EmptySalt == 0
None == {}

VARIABLES
    db,            \* TRUE: the store is configured; FALSE: `db is None`
    user,          \* collection "user": sequence of account documents
    session,       \* collection "session"
    organization,  \* collection "organization"
    membership,    \* collection "membership"
    subscription,  \* collection "subscription"
    drawn,         \* number of values drawn from `secrets` so far
    pc,            \* pc[w]: the step worker w is at
    req,           \* req[w]: the request worker w is serving, as far as read
    au,            \* au[w]: AuthedUser.user_id, once the dependency has run
    loc,           \* loc[w]: the handler's local variables
    resp           \* resp[w]: the response, once the handler has ended

vars == <<db, user, session, organization, membership, subscription, drawn,
          pc, req, au, loc, resp>>
store == <<user, session, organization, membership, subscription>>

\* ------------------------------------------------------- store primitives
Min(S) == CHOOSE x \in S : \A y \in S : x <= y

Val(opt) == CHOOSE x \in opt : TRUE

\* dict.get(key): None when the key is missing
Get(doc, key) == IF key \in DOMAIN doc THEN {doc[key]} ELSE None

\* collection.find_one(filter), hits being the positions of the documents that
\* match the filter: the first of them in insertion order, or None
FindOne(coll, hits) == IF hits = {} THEN None ELSE {coll[Min(hits)]}

\* list(collection.find(filter)): the documents at the positions hits, in order
Find(coll, hits) ==
    LET at == SelectSeq([i \in DOMAIN coll |-> i], LAMBDA i : i \in hits)
    IN  [k \in DOMAIN at |-> coll[at[k]]]

\* the id the store generates for a new document of coll, as str(inserted_id)
NewId(coll) == Len(coll) + 1

\* create_document(collection, doc): insert with a generated _id
create_document(coll, doc) == Append(coll, [_id |-> NewId(coll)] @@ doc)

\* ------------------------------------------------------ credential hasher
KDF(password, salt) == <<password, salt>>

Truthy(opt) == opt # None /\ opt # {EmptySalt}

\* hash_password(password, salt): <<hash, salt used>>; fresh is the value
\* secrets.token_hex returns when it is called
hash_password(password, salt, fresh) ==
    LET s == IF Truthy(salt) THEN Val(salt) ELSE fresh
    IN  <<KDF(password, s), s>>

\* verify_password: compare_digest raises TypeError on a None argument
verify_password(password, password_hash, salt, fresh) ==
    LET computed == hash_password(password, salt, fresh)[1]
    IN  [raised |-> password_hash = None,
         value  |-> computed \in password_hash]

\* ------------------------------------------------------------ responses
Idle == [kind |-> "none"]
NoLoc == [none |-> TRUE]
NoResp == [status |-> 0, detail |-> ""]

HTTPException(status, detail) == [status |-> status, detail |-> detail]

\* mutant of Redact: only the hash is removed
Redact_keeps_salt(doc) == [k \in DOMAIN doc \ {"password_hash"} |-> doc[k]]

\* line 78-79, 94-95: user_doc.pop("password_hash", None); user_doc.pop("salt", None)
Redact(doc) == [k \in DOMAIN doc \ {"password_hash", "salt"} |-> doc[k]]

Set(f, w, v) == [f EXCEPT ![w] = v]

\* the handler of worker w returns or raises r
Respond(w, r) ==
    /\ pc' = Set(pc, w, "done")
    /\ resp' = Set(resp, w, r)
    /\ req' = Set(req, w, Idle)
    /\ au' = Set(au, w, None)
    /\ loc' = Set(loc, w, NoLoc)

\* the handler of worker w goes on to step, with request r and locals l
Goto(w, step, r, l) ==
    /\ pc' = Set(pc, w, step)
    /\ req' = Set(req, w, r)
    /\ loc' = Set(loc, w, l)
    /\ UNCHANGED <<au, resp>>

\* a request of the given kind arrives at worker w
Start(w, kind, step) ==
    /\ pc[w] = "idle"
    /\ pc' = Set(pc, w, step)
    /\ req' = Set(req, w, [kind |-> kind])
    /\ UNCHANGED <<db, store, drawn, au, loc, resp>>

\* ------------------------------------------------------------------- Init
IdleWorkers ==
    /\ pc = [w \in Workers |-> "idle"]
    /\ req = [w \in Workers |-> Idle]
    /\ au = [w \in Workers |-> None]
    /\ loc = [w \in Workers |-> NoLoc]
    /\ resp = [w \in Workers |-> NoResp]

\* a fresh deployment: empty collections; db is None when the store is not configured
Init ==
    /\ db \in BOOLEAN
    /\ user = <<>>
    /\ session = <<>>
    /\ organization = <<>>
    /\ membership = <<>>
    /\ subscription = <<>>
    /\ drawn = 0
    /\ IdleWorkers

\* ----------------------------------------------------- POST /auth/signup
StartSignup(w) ==
    /\ pc[w] = "idle"
    /\ pc' = Set(pc, w, "signup_find")
    /\ \E e \in Emails, p \in Passwords :
           req' = Set(req, w, [kind |-> "signup", email |-> e, password |-> p])
    /\ UNCHANGED <<db, store, drawn, au, loc, resp>>

\* mutant of signup_existing: the uniqueness read is skipped
signup_existing_skipped(email) == <<>>

\* line 59: the accounts the uniqueness read returns
signup_existing(email) ==
    IF db THEN Find(user, {i \in DOMAIN user : Get(user[i], "email") = {email}}) ELSE <<>>

\* line 59-61: the uniqueness read
SignupFind(w) ==
    /\ pc[w] = "signup_find"
    /\ IF signup_existing(req[w].email) # <<>>
       THEN Respond(w, HTTPException(400, "Email already registered"))
       ELSE Goto(w, "signup_user", req[w], NoLoc)
    /\ UNCHANGED <<db, store, drawn>>

\* mutant of SignupUser: the insert re-checks the email, as a store with a
\* unique index on email would
SignupUserUnique(w) ==
    /\ pc[w] = "signup_user"
    /\ drawn < MaxDraws
    /\ drawn' = drawn + 1
    /\ LET hs == hash_password(req[w].password, None, drawn + 1)
           user_doc == [name |-> "Ada", email |-> req[w].email,
                        password_hash |-> hs[1], salt |-> hs[2],
                        is_active |-> TRUE, avatar_url |-> None]
       IN  IF db /\ ~\E i \in DOMAIN user : Get(user[i], "email") = {req[w].email}
           THEN /\ user' = create_document(user, user_doc)
                /\ Goto(w, "signup_session", req[w],
                        [user_id |-> NewId(user), user_doc |-> user_doc])
           ELSE /\ Respond(w, HTTPException(400, "Email already registered"))
                /\ UNCHANGED user
    /\ UNCHANGED <<db, session, organization, membership, subscription>>

\* line 63-72: hash the password with a fresh salt and insert the account
SignupUser(w) ==
    /\ pc[w] = "signup_user"
    /\ drawn < MaxDraws
    /\ drawn' = drawn + 1
    /\ LET hs == hash_password(req[w].password, None, drawn + 1)
           user_doc == [name |-> "Ada", email |-> req[w].email,
                        password_hash |-> hs[1], salt |-> hs[2],
                        is_active |-> TRUE, avatar_url |-> None]
       IN  IF db
           THEN /\ user' = create_document(user, user_doc)
                /\ Goto(w, "signup_session", req[w],
                        [user_id |-> NewId(user), user_doc |-> user_doc])
           ELSE /\ Respond(w, HTTPException(500, "Database not available"))
                /\ UNCHANGED user
    /\ UNCHANGED <<db, session, organization, membership, subscription>>

\* mutant of SignupSession: the session is bound to the id the store would
\* generate next, not to the id of the account just inserted
SignupSessionNextId(w) ==
    /\ pc[w] = "signup_session"
    /\ drawn < MaxDraws
    /\ drawn' = drawn + 1
    /\ LET token == <<drawn + 1>>
           user_doc == [_id |-> loc[w].user_id] @@ loc[w].user_doc
       IN  /\ session' = create_document(session, [user_id |-> NewId(user), token |-> token])
           /\ Respond(w, [status |-> 200, detail |-> "", token |-> token,
                          user |-> Redact(user_doc)])
    /\ UNCHANGED <<db, user, organization, membership, subscription>>

\* line 74-80: issue the token, insert the session, answer with the public account
SignupSession(w) ==
    /\ pc[w] = "signup_session"
    /\ drawn < MaxDraws
    /\ drawn' = drawn + 1
    /\ LET token == <<drawn + 1>>
           user_doc == [_id |-> loc[w].user_id] @@ loc[w].user_doc
       IN  /\ session' = create_document(session, [user_id |-> loc[w].user_id, token |-> token])
           /\ Respond(w, [status |-> 200, detail |-> "", token |-> token,
                          user |-> Redact(user_doc)])
    /\ UNCHANGED <<db, user, organization, membership, subscription>>

\* ------------------------------------------------------ POST /auth/login
StartLogin(w) ==
    /\ pc[w] = "idle"
    /\ pc' = Set(pc, w, "login_find")
    /\ \E e \in Emails, p \in Passwords :
           req' = Set(req, w, [kind |-> "login", email |-> e, password |-> p])
    /\ UNCHANGED <<db, store, drawn, au, loc, resp>>

\* line 85-89: the account read and the password check; fresh is the value
\* secrets.token_hex returns if verify_password has to draw a salt
login_check(email, password, fresh) ==
    LET found == IF db
                 THEN FindOne(user, {i \in DOMAIN user : Get(user[i], "email") = {email}})
                 ELSE None
    IN  IF found = None
        THEN [status |-> 401, detail |-> "Invalid credentials", user |-> None, draws |-> FALSE]
        ELSE LET u == Val(found)
                 v == verify_password(password, Get(u, "password_hash"), Get(u, "salt"), fresh)
                 draws == ~Truthy(Get(u, "salt"))
             IN  IF v.raised
                 THEN [status |-> 500, detail |-> "Internal Server Error",
                       user |-> None, draws |-> draws]
                 ELSE IF ~v.value
                 THEN [status |-> 401, detail |-> "Invalid credentials",
                       user |-> None, draws |-> draws]
                 ELSE [status |-> 200, detail |-> "", user |-> found, draws |-> draws]

LoginFind(w) ==
    /\ pc[w] = "login_find"
    /\ LET r == login_check(req[w].email, req[w].password, drawn + 1)
       IN  /\ r.draws => drawn < MaxDraws
           /\ drawn' = IF r.draws THEN drawn + 1 ELSE drawn
           /\ IF r.status # 200
              THEN Respond(w, HTTPException(r.status, r.detail))
              ELSE Goto(w, "login_session", req[w], [user |-> Val(r.user)])
    /\ UNCHANGED <<db, store>>

\* mutant of LoginSession: the token is derived from the account instead of drawn
LoginSessionDerivedToken(w) ==
    /\ pc[w] = "login_session"
    /\ drawn < MaxDraws
    /\ drawn' = drawn + 1
    /\ LET u == loc[w].user
           token == <<2 * u._id>>
       IN  /\ session' = create_document(session, [user_id |-> u._id, token |-> token])
           /\ Respond(w, [status |-> 200, detail |-> "", token |-> token, user |-> Redact(u)])
    /\ UNCHANGED <<db, user, organization, membership, subscription>>

\* mutant of LoginSession: a login replaces the earlier sessions of the account
LoginSessionSingle(w) ==
    /\ pc[w] = "login_session"
    /\ drawn < MaxDraws
    /\ drawn' = drawn + 1
    /\ LET token == <<drawn + 1>>
           u == loc[w].user
           others == SelectSeq(session, LAMBDA s : s.user_id # u._id)
       IN  /\ session' = Append(others, [_id |-> NewId(session), user_id |-> u._id,
                                         token |-> token])
           /\ Respond(w, [status |-> 200, detail |-> "", token |-> token, user |-> Redact(u)])
    /\ UNCHANGED <<db, user, organization, membership, subscription>>

\* line 91-96: issue the token, insert the session, answer with the public account
LoginSession(w) ==
    /\ pc[w] = "login_session"
    /\ drawn < MaxDraws
    /\ drawn' = drawn + 1
    /\ LET token == <<drawn + 1>>
           u == loc[w].user
       IN  /\ session' = create_document(session, [user_id |-> u._id, token |-> token])
           /\ Respond(w, [status |-> 200, detail |-> "", token |-> token, user |-> Redact(u)])
    /\ UNCHANGED <<db, user, organization, membership, subscription>>

\* --------------------------------------------- Depends(get_user_by_token)
\* str.replace("Bearer ", ""): every occurrence is removed
Replace(h) == SelectSeq(h, LAMBDA c : c # Bearer)

\* mutant of get_user_by_token: the session is matched on a token prefix, so the
\* empty token matches every session
get_user_by_token_prefix_match(authorization) ==
    IF authorization = None \/ authorization = {<<>>}
    THEN [status |-> 401, detail |-> "Missing token", user_id |-> None]
    ELSE LET token == Replace(Val(authorization))
             sess  == IF db
                      THEN FindOne(session, {i \in DOMAIN session :
                                               token = <<>> \/ session[i].token = token})
                      ELSE None
         IN  IF sess = None
             THEN [status |-> 401, detail |-> "Invalid token", user_id |-> None]
             ELSE [status |-> 200, detail |-> "", user_id |-> {Val(sess).user_id}]

\* get_user_by_token(authorization): the exception raised or the AuthedUser
get_user_by_token(authorization) ==
    IF authorization = None \/ authorization = {<<>>}
    THEN [status |-> 401, detail |-> "Missing token", user_id |-> None]
    ELSE LET token == Replace(Val(authorization))
             sess  == IF db
                      THEN FindOne(session, {i \in DOMAIN session : session[i].token = token})
                      ELSE None
         IN  IF sess = None
             THEN [status |-> 401, detail |-> "Invalid token", user_id |-> None]
             ELSE [status |-> 200, detail |-> "", user_id |-> {Val(sess).user_id}]

\* token candidates a client can send: every token issued, and one never issued
TokenSymbols == {session[i].token[1] : i \in DOMAIN session} \cup {drawn + 1}

\* Authorization header values: absent, empty, the scheme alone, and a token
\* candidate alone, behind the scheme, behind the scheme twice, in front of it
Headers ==
    {None, {<<>>}, {<<Bearer>>}}
    \cup {{<<t>>} : t \in TokenSymbols}
    \cup {{<<Bearer, t>>} : t \in TokenSymbols}
    \cup {{<<Bearer, Bearer, t>>} : t \in TokenSymbols}
    \cup {{<<t, Bearer>>} : t \in TokenSymbols}

\* the first step of each protected handler's body
FirstStep(kind) ==
    CASE kind = "list_orgs" -> "list_orgs"
      [] kind = "create_org" -> "org_insert"
      [] kind = "list_members" -> "lm_ensure"
      [] kind = "invite_member" -> "inv_ensure"
      [] kind = "subscribe" -> "sub_ensure"

\* mutant of Authenticate: a successful validation marks the session row as used
AuthenticateMarksSession(w) ==
    /\ pc[w] = "auth"
    /\ \E h \in Headers :
           LET r == get_user_by_token(h)
           IN  IF r.status # 200
               THEN /\ Respond(w, HTTPException(r.status, r.detail))
                    /\ UNCHANGED session
               ELSE /\ au' = Set(au, w, r.user_id)
                    /\ pc' = Set(pc, w, FirstStep(req[w].kind))
                    /\ session' = [i \in DOMAIN session |->
                                      IF session[i].token = Replace(Val(h))
                                      THEN [used |-> TRUE] @@ session[i]
                                      ELSE session[i]]
                    /\ UNCHANGED <<req, loc, resp>>
    /\ UNCHANGED <<db, user, organization, membership, subscription, drawn>>

\* the dependency runs before the handler's body (line 105-112)
Authenticate(w) ==
    /\ pc[w] = "auth"
    /\ \E h \in Headers :
           LET r == get_user_by_token(h)
           IN  IF r.status # 200
               THEN Respond(w, HTTPException(r.status, r.detail))
               ELSE /\ au' = Set(au, w, r.user_id)
                    /\ pc' = Set(pc, w, FirstStep(req[w].kind))
                    /\ UNCHANGED <<req, loc, resp>>
    /\ UNCHANGED <<db, store, drawn>>

\* ------------------------------------------------------------- GET /orgs
StartListOrgs(w) == Start(w, "list_orgs", "auth")

ListOrgs(w) ==
    /\ pc[w] = "list_orgs"
    /\ IF ~db
       THEN Respond(w, HTTPException(500, "Database not configured"))
       ELSE LET mems == Find(membership,
                              {i \in DOMAIN membership : {membership[i].user_id} = au[w]})
                org_ids == {mems[i].org_id : i \in DOMAIN mems}
                orgs == Find(organization,
                             {i \in DOMAIN organization : organization[i]._id \in org_ids})
            IN  Respond(w, [status |-> 200, detail |-> "",
                            items |-> {orgs[i]._id : i \in DOMAIN orgs}])
    /\ UNCHANGED <<db, store, drawn>>

\* the response has been sent: the worker takes the next request
Finish(w) ==
    /\ pc[w] = "done"
    /\ pc' = Set(pc, w, "idle")
    /\ resp' = Set(resp, w, NoResp)
    /\ UNCHANGED <<db, store, drawn, req, au, loc>>

NextAuth ==
    \E w \in Workers :
        \/ StartSignup(w)
        \/ SignupFind(w)
        \/ SignupUser(w)
        \/ SignupSession(w)
        \/ StartLogin(w)
        \/ LoginFind(w)
        \/ LoginSession(w)
        \/ StartListOrgs(w)
        \/ Authenticate(w)
        \/ ListOrgs(w)
        \/ Finish(w)

SpecAuth == Init /\ [][NextAuth]_vars

\* a store that already holds one account whose document lacks a credential field
Drop(doc, keys) == [k \in DOMAIN doc \ keys |-> doc[k]]

StoredAccount ==
    [_id |-> 1, name |-> "Ada", email |-> "ada@x.com", password_hash |-> KDF("secret123", 1),
     salt |-> 1, is_active |-> TRUE, avatar_url |-> None]

InitStored ==
    /\ db = TRUE
    /\ \E keys \in {{"password_hash"}, {"salt"}, {"password_hash", "salt"}} :
           user = <<Drop(StoredAccount, keys)>>
    /\ session = <<>>
    /\ organization = <<>>
    /\ membership = <<>>
    /\ subscription = <<>>
    /\ drawn = 1
    /\ IdleWorkers

SpecStored == InitStored /\ [][NextAuth]_vars

\* ------------------------------------------------------- access control guard
OrgIds == 1..(MaxOrgs + 1)
UserIds == DOMAIN user

\* mutant of ensure_member: only an owner's row counts
ensure_member_owner_only(org_id, user_id) ==
    IF ~db
    THEN [status |-> 500, detail |-> "Database not configured", mem |-> None]
    ELSE LET mem == FindOne(membership,
                            {i \in DOMAIN membership :
                                 /\ membership[i].org_id = org_id
                                 /\ membership[i].user_id = user_id
                                 /\ membership[i].role = "owner"})
         IN  IF mem = None
             THEN [status |-> 403, detail |-> "Not a member of this organization", mem |-> None]
             ELSE [status |-> 200, detail |-> "", mem |-> mem]

\* ensure_member(org_id, user_id): the exception raised or the membership row
ensure_member(org_id, user_id) ==
    IF ~db
    THEN [status |-> 500, detail |-> "Database not configured", mem |-> None]
    ELSE LET mem == FindOne(membership,
                            {i \in DOMAIN membership :
                                 /\ membership[i].org_id = org_id
                                 /\ membership[i].user_id = user_id})
         IN  IF mem = None
             THEN [status |-> 403, detail |-> "Not a member of this organization", mem |-> None]
             ELSE [status |-> 200, detail |-> "", mem |-> mem]

\* ------------------------------------------------------------ POST /orgs
StartCreateOrg(w) == Start(w, "create_org", "auth")

\* line 153-154: insert the organization
OrgInsert(w) ==
    /\ pc[w] = "org_insert"
    /\ Len(organization) < MaxOrgs
    /\ organization' = create_document(organization,
           [name |-> "Acme", slug |-> None, owner_id |-> Val(au[w])])
    /\ Goto(w, "org_member", req[w], [org_id |-> NewId(organization)])
    /\ UNCHANGED <<db, user, session, membership, subscription, drawn>>

\* mutant of OrgMember: the creator is inserted as a plain member
OrgMemberAsMember(w) ==
    /\ pc[w] = "org_member"
    /\ Len(membership) < MaxMembers
    /\ membership' = create_document(membership,
           [org_id |-> loc[w].org_id, user_id |-> Val(au[w]), role |-> "member"])
    /\ Respond(w, [status |-> 200, detail |-> "", id |-> loc[w].org_id])
    /\ UNCHANGED <<db, user, session, organization, subscription, drawn>>

\* line 155-156: insert the owner's membership
OrgMember(w) ==
    /\ pc[w] = "org_member"
    /\ Len(membership) < MaxMembers
    /\ membership' = create_document(membership,
           [org_id |-> loc[w].org_id, user_id |-> Val(au[w]), role |-> "owner"])
    /\ Respond(w, [status |-> 200, detail |-> "", id |-> loc[w].org_id])
    /\ UNCHANGED <<db, user, session, organization, subscription, drawn>>

\* ------------------------------------------- GET /orgs/{org_id}/members
StartListMembers(w) == Start(w, "list_members", "auth")

\* line 175
LmEnsure(w) ==
    /\ pc[w] = "lm_ensure"
    /\ \E o \in OrgIds :
           LET r == ensure_member(o, Val(au[w]))
           IN  IF r.status # 200
               THEN Respond(w, HTTPException(r.status, r.detail))
               ELSE Goto(w, "lm_get", [kind |-> "list_members", org_id |-> o], NoLoc)
    /\ UNCHANGED <<db, store, drawn>>

\* line 176-179
LmGet(w) ==
    /\ pc[w] = "lm_get"
    /\ LET items == Find(membership,
                          {i \in DOMAIN membership : membership[i].org_id = req[w].org_id})
       IN  Respond(w, [status |-> 200, detail |-> "", items |-> items])
    /\ UNCHANGED <<db, store, drawn>>

\* -------------------------------------------- POST /orgs/{org_id}/invite
StartInvite(w) == Start(w, "invite_member", "auth")

\* mutant of invite_gate: every member passes
invite_gate_any_member(org_id, user_id) == ensure_member(org_id, user_id)

\* line 184-186: the membership read and the role gate
invite_gate(org_id, user_id) ==
    LET r == ensure_member(org_id, user_id)
    IN  IF r.status # 200
        THEN r
        ELSE IF Val(r.mem).role \notin {"owner", "admin"}
        THEN [status |-> 403, detail |-> "Insufficient role", mem |-> None]
        ELSE r

InvEnsure(w) ==
    /\ pc[w] = "inv_ensure"
    /\ \E o \in OrgIds :
           LET r == invite_gate(o, Val(au[w]))
           IN  IF r.status # 200
               THEN Respond(w, HTTPException(r.status, r.detail))
               ELSE Goto(w, "inv_exists", [kind |-> "invite_member", org_id |-> o],
                         [mem |-> Val(r.mem)])
    /\ UNCHANGED <<db, store, drawn>>

\* line 187: the existence read
invite_exists(org_id, user_id) ==
    IF db
    THEN FindOne(membership, {i \in DOMAIN membership :
                                  /\ membership[i].org_id = org_id
                                  /\ membership[i].user_id = user_id})
    ELSE None

\* mutant of InvExists: an invite for a user who has a row sets that row's role
InvExistsSetsRole(w) ==
    /\ pc[w] = "inv_exists"
    /\ \E u \in UserIds :
           IF invite_exists(req[w].org_id, u) # None
           THEN /\ \E r \in RoleInputs :
                       membership' = [membership EXCEPT
                           ![Val(invite_exists(req[w].org_id, u))._id].role = r]
                /\ Respond(w, [status |-> 200, detail |-> "exists"])
           ELSE /\ Goto(w, "inv_insert",
                        [req[w] EXCEPT !.kind = "invite_member"] @@ [user_id |-> u], loc[w])
                /\ UNCHANGED membership
    /\ UNCHANGED <<db, user, session, organization, subscription, drawn>>

\* line 187-189
InvExists(w) ==
    /\ pc[w] = "inv_exists"
    /\ \E u \in UserIds :
           IF invite_exists(req[w].org_id, u) # None
           THEN Respond(w, [status |-> 200, detail |-> "exists"])
           ELSE Goto(w, "inv_insert", [req[w] EXCEPT !.kind = "invite_member"] @@ [user_id |-> u],
                     loc[w])
    /\ UNCHANGED <<db, store, drawn>>

\* line 190-191: the insert
InvInsert(w) ==
    /\ pc[w] = "inv_insert"
    /\ Len(membership) < MaxMembers
    /\ \E r \in RoleInputs :
           membership' = create_document(membership,
               [org_id |-> req[w].org_id, user_id |-> req[w].user_id, role |-> r])
    /\ Respond(w, [status |-> 200, detail |-> "", id |-> NewId(membership)])
    /\ UNCHANGED <<db, user, session, organization, subscription, drawn>>

\* the accounts the organization scenarios start from: U and V have signed up
SeedAccount(i, email) ==
    [_id |-> i, name |-> "Ada", email |-> email, password_hash |-> KDF("secret123", 2 * i - 1),
     salt |-> 2 * i - 1, is_active |-> TRUE, avatar_url |-> None]

InitOrg ==
    /\ db \in BOOLEAN
    /\ user = IF db THEN <<SeedAccount(1, "ada@x.com"), SeedAccount(2, "bob@x.com")>> ELSE <<>>
    /\ session = [i \in DOMAIN user |-> [_id |-> i, user_id |-> i, token |-> <<2 * i>>]]
    /\ organization = <<>>
    /\ membership = <<>>
    /\ subscription = <<>>
    /\ drawn = 2 * Len(user)
    /\ IdleWorkers

NextOrg ==
    \E w \in Workers :
        \/ StartCreateOrg(w)
        \/ OrgInsert(w)
        \/ OrgMember(w)
        \/ StartListMembers(w)
        \/ LmEnsure(w)
        \/ LmGet(w)
        \/ StartInvite(w)
        \/ InvEnsure(w)
        \/ InvExists(w)
        \/ InvInsert(w)
        \/ Authenticate(w)
        \/ Finish(w)

SpecOrg == InitOrg /\ [][NextOrg]_vars

\* --------------------------------------------------- POST /subscriptions
PlanKeys == {"starter", "pro"}

StartSubscribe(w) == Start(w, "subscribe", "auth")

\* line 240: the body is read and the caller's membership checked
SubEnsure(w) ==
    /\ pc[w] = "sub_ensure"
    /\ \E o \in OrgIds, k \in PlanKeys :
           LET r == ensure_member(o, Val(au[w]))
           IN  IF r.status # 200
               THEN Respond(w, HTTPException(r.status, r.detail))
               ELSE Goto(w, "sub_find",
                         [kind |-> "subscribe", org_id |-> o, plan_key |-> k], NoLoc)
    /\ UNCHANGED <<db, store, drawn>>

\* line 242: the read of the org's subscription
subscribe_find(org_id) ==
    IF db
    THEN FindOne(subscription, {i \in DOMAIN subscription : subscription[i].org_id = org_id})
    ELSE None

\* mutant of SubFind: the read also filters on the plan key
SubFindByPlan(w) ==
    /\ pc[w] = "sub_find"
    /\ LET sub == FindOne(subscription,
                          {i \in DOMAIN subscription :
                               /\ subscription[i].org_id = req[w].org_id
                               /\ subscription[i].plan_key = req[w].plan_key})
       IN  IF sub # None
           THEN Goto(w, "sub_update", req[w], [sub |-> Val(sub)])
           ELSE Goto(w, "sub_insert", req[w], NoLoc)
    /\ UNCHANGED <<db, store, drawn>>

\* line 242-243
SubFind(w) ==
    /\ pc[w] = "sub_find"
    /\ LET sub == subscribe_find(req[w].org_id)
       IN  IF sub # None
           THEN Goto(w, "sub_update", req[w], [sub |-> Val(sub)])
           ELSE Goto(w, "sub_insert", req[w], NoLoc)
    /\ UNCHANGED <<db, store, drawn>>

\* line 244-245: update_one on the _id of the row read
SubUpdate(w) ==
    /\ pc[w] = "sub_update"
    /\ subscription' = [i \in DOMAIN subscription |->
                           IF subscription[i]._id = loc[w].sub._id
                           THEN [subscription[i] EXCEPT !.plan_key = req[w].plan_key,
                                                        !.status = "active"]
                           ELSE subscription[i]]
    /\ Respond(w, [status |-> 200, detail |-> "", id |-> loc[w].sub._id, updated |-> TRUE])
    /\ UNCHANGED <<db, user, session, organization, membership, drawn>>

\* line 246-247: the insert
SubInsert(w) ==
    /\ pc[w] = "sub_insert"
    /\ subscription' = create_document(subscription,
           [org_id |-> req[w].org_id, plan_key |-> req[w].plan_key,
            status |-> "active", provider |-> "internal"])
    /\ Respond(w, [status |-> 200, detail |-> "", id |-> NewId(subscription)])
    /\ UNCHANGED <<db, user, session, organization, membership, drawn>>

\* the state the subscription scenarios start from: U and V have signed up, U
\* has created the organizations and invited V into the first as a member
InitSub ==
    /\ db = TRUE
    /\ user = <<SeedAccount(1, "ada@x.com"), SeedAccount(2, "bob@x.com")>>
    /\ session = [i \in DOMAIN user |-> [_id |-> i, user_id |-> i, token |-> <<2 * i>>]]
    /\ organization = [o \in 1..MaxOrgs |->
                          [_id |-> o, name |-> "Acme", slug |-> None, owner_id |-> 1]]
    /\ membership = [o \in 1..MaxOrgs |-> [_id |-> o, org_id |-> o, user_id |-> 1,
                                           role |-> "owner"]]
                    \o <<[_id |-> MaxOrgs + 1, org_id |-> 1, user_id |-> 2, role |-> "member"]>>
    /\ subscription = <<>>
    /\ drawn = 2 * Len(user)
    /\ IdleWorkers

NextSub ==
    \E w \in Workers :
        \/ StartSubscribe(w)
        \/ Authenticate(w)
        \/ SubEnsure(w)
        \/ SubFind(w)
        \/ SubUpdate(w)
        \/ SubInsert(w)
        \/ Finish(w)

SpecSub == InitSub /\ [][NextSub]_vars

\* ================================================================ claims
EmailStored(e) == \E i \in DOMAIN user : Get(user[i], "email") = {e}

MemberRows(o, u) ==
    {i \in DOMAIN membership : membership[i].org_id = o /\ membership[i].user_id = u}

\* C1: in every reachable state the membership collection holds at most one row
\* per (org_id, user_id) pair, under any interleaving of create_org and
\* invite_member requests.
C1_OneRowPerPair ==
    \A i, j \in DOMAIN membership :
        (membership[i].org_id = membership[j].org_id
         /\ membership[i].user_id = membership[j].user_id) => i = j

\* C2: a signup whose uniqueness read finds its email on a stored account ends
\* with 400 "Email already registered" and inserts neither an account row nor a
\* session row.
C2_DuplicateSignupRejected ==
    [][\A w \in Workers :
          (pc[w] = "signup_find" /\ pc'[w] # "signup_find" /\ EmailStored(req[w].email))
          => /\ pc'[w] = "done"
             /\ resp'[w] = HTTPException(400, "Email already registered")
             /\ user' = user
             /\ session' = session]_vars

\* an earlier signup has completed and a later one with its email was turned away
C2_Witness ==
    /\ Len(user) = 1
    /\ Len(session) = 1
    /\ \E w \in Workers :
           pc[w] = "done" /\ resp[w] = HTTPException(400, "Email already registered")

\* C3: the store enforces no uniqueness, so a signup that has passed the
\* uniqueness read always inserts its account, whatever has been inserted since
\* the read, and then inserts its own session and answers 200; two concurrent
\* signups with one email therefore both succeed (C3_Witness).
C3_ConcurrentSignupsBothSucceed ==
    [][\A w \in Workers :
          /\ (db /\ pc[w] = "signup_user" /\ pc'[w] # "signup_user")
             => /\ pc'[w] = "signup_session"
                /\ Len(user') = Len(user) + 1
                /\ SubSeq(user', 1, Len(user)) = user
                /\ Get(user'[Len(user')], "email") = {req[w].email}
                /\ user'[Len(user')]._id = loc'[w].user_id
          /\ (pc[w] = "signup_session" /\ pc'[w] # "signup_session")
             => /\ resp'[w].status = 200
                /\ Len(session') = Len(session) + 1
                /\ session'[Len(session')].user_id = loc[w].user_id
                /\ session'[Len(session')].token = resp'[w].token]_vars

\* two account rows with the same email, each with its own session
C3_Witness ==
    \E i, j \in DOMAIN user :
        /\ i # j
        /\ Get(user[i], "email") = Get(user[j], "email")
        /\ \E k, l \in DOMAIN session :
               /\ session[k].user_id = user[i]._id
               /\ session[l].user_id = user[j]._id
               /\ session[k].token # session[l].token

\* C4: the tokens of the session rows are pairwise distinct, the token of every
\* session row resolves through get_user_by_token to the user id the row was
\* issued for, and so does the token of every signup or login response.
C4_TokensDistinctAndResolve ==
    /\ \A i, j \in DOMAIN session : session[i].token = session[j].token => i = j
    /\ \A i \in DOMAIN session :
           get_user_by_token({<<Bearer>> \o session[i].token})
               = [status |-> 200, detail |-> "", user_id |-> {session[i].user_id}]
    /\ \A w \in Workers :
           (pc[w] = "done" /\ "token" \in DOMAIN resp[w])
           => get_user_by_token({<<Bearer>> \o resp[w].token}).user_id = {resp[w].user._id}

\* two tokens have been issued for one user
C4_Witness ==
    \E i, j \in DOMAIN session :
        i # j /\ session[i].user_id = session[j].user_id

\* the header value with a leading "Bearer " removed
StripPrefix(h) == IF Len(h) >= 1 /\ h[1] = Bearer THEN Tail(h) ELSE h

SessionFor(token, u) ==
    \E i \in DOMAIN session : session[i].token = token /\ session[i].user_id = u

SessionUsers == {session[i].user_id : i \in DOMAIN session} \cup DOMAIN user

\* C5 as stated: a header h authenticates as u iff a session row has the token
\* h with the "Bearer " prefix removed and user_id u.
C5_PrefixRemoved ==
    \A h \in Headers : \A u \in SessionUsers :
        (get_user_by_token(h).user_id = {u})
        <=> (h # None /\ SessionFor(StripPrefix(Val(h)), u))

\* C5 as amended: a header h authenticates as u iff a session row has the token
\* h with every occurrence of "Bearer " removed and user_id u; an absent
\* header, a header with no token and a token with no session row give 401.
C5_EveryOccurrenceRemoved ==
    \A h \in Headers :
        LET r == get_user_by_token(h)
        IN  /\ \A u \in SessionUsers :
                   (r.user_id = {u}) <=> (h # None /\ SessionFor(Replace(Val(h)), u))
            /\ (h = None \/ Replace(Val(h)) = <<>>
                \/ \A i \in DOMAIN session : session[i].token # Replace(Val(h)))
               => (r.status = 401 /\ r.user_id = None)
            /\ r.status \in {200, 401}
            /\ r.status = 200 => r.user_id # None

\* one request has been authenticated while another was refused for its token
C5_Witness ==
    \E w, v \in Workers :
        /\ pc[w] = "list_orgs" /\ au[w] # None
        /\ pc[v] = "done" /\ resp[v] = HTTPException(401, "Invalid token")
        /\ Len(session) >= 2

\* C6: where a handler calls ensure_member, the call succeeds, returning a
\* row of the pair, iff a membership row exists for (org_id, user_id), whatever
\* its role, and is refused with 403 "Not a member" otherwise; a handler past
\* the check has such a row.
C6_MemberIffRow ==
    \A w \in Workers :
        /\ pc[w] \in {"lm_ensure", "inv_ensure"}
           => \A o \in OrgIds :
                  LET u == Val(au[w])
                      r == ensure_member(o, u)
                  IN  IF MemberRows(o, u) # {}
                      THEN /\ r.status = 200
                           /\ r.mem # None
                           /\ \E i \in MemberRows(o, u) : r.mem = {membership[i]}
                      ELSE r = [status |-> 403, mem |-> None,
                                detail |-> "Not a member of this organization"]
        /\ pc[w] = "lm_get" => MemberRows(req[w].org_id, Val(au[w])) # {}

\* a user whose row has a role other than owner or admin is listing the members
C6_Witness ==
    \E w \in Workers :
        /\ pc[w] = "lm_get"
        /\ \E i \in MemberRows(req[w].org_id, Val(au[w])) :
               membership[i].role \notin {"owner", "admin"}
        /\ \E v \in Workers :
               pc[v] = "done"
               /\ resp[v] = HTTPException(403, "Not a member of this organization")

\* C7: invite_member is refused with 403 "Insufficient role" whenever a
\* membership row of the caller in that org has a role other than owner or
\* admin, and passes the role gate whenever one has the role owner or admin; a
\* handler past the gate, the only one that can insert, has no row with another
\* role.
C7_RoleGate ==
    \A w \in Workers :
        /\ pc[w] = "inv_ensure"
           => \A o \in OrgIds : \A i \in MemberRows(o, Val(au[w])) :
                  IF membership[i].role \in {"owner", "admin"}
                  THEN invite_gate(o, Val(au[w])).status = 200
                  ELSE invite_gate(o, Val(au[w]))
                           = [status |-> 403, detail |-> "Insufficient role", mem |-> None]
        /\ pc[w] \in {"inv_exists", "inv_insert"}
           => \A i \in MemberRows(req[w].org_id, Val(au[w])) :
                  membership[i].role \in {"owner", "admin"}

\* C7, with "the caller's membership row" read as the row ensure_member
\* returns (the first inserted row of the pair): holds in every reachable state.
C7_GateOnFirstRow ==
    \A w \in Workers :
        /\ pc[w] = "inv_ensure"
           => \A o \in OrgIds :
                  LET rows == MemberRows(o, Val(au[w]))
                  IN  rows # {} =>
                          IF membership[Min(rows)].role \in {"owner", "admin"}
                          THEN invite_gate(o, Val(au[w])).status = 200
                          ELSE invite_gate(o, Val(au[w]))
                                   = [status |-> 403, detail |-> "Insufficient role",
                                      mem |-> None]
        /\ pc[w] \in {"inv_exists", "inv_insert"}
           => LET rows == MemberRows(req[w].org_id, Val(au[w]))
              IN  rows # {} /\ membership[Min(rows)].role \in {"owner", "admin"}

\* the accounts stored under an email, and those a password is correct for
AccountsOf(e) == {i \in DOMAIN user : Get(user[i], "email") = {e}}

CorrectFor(i, p) ==
    /\ Get(user[i], "password_hash") # None
    /\ Get(user[i], "salt") # None
    /\ user[i].password_hash = KDF(p, user[i].salt)

\* C8: a login with an unknown email and a login with a known email and a
\* password that is not the account's both end with 401 "Invalid credentials"
\* and insert no session row; a login with the password of an account stored
\* under the email succeeds, and the token it returns is in no earlier session.
C8_LoginOutcomes ==
    [][\A w \in Workers :
          /\ (pc[w] = "login_find" /\ pc'[w] # "login_find")
             => IF \E i \in AccountsOf(req[w].email) : CorrectFor(i, req[w].password)
                THEN pc'[w] = "login_session"
                ELSE /\ resp'[w] = HTTPException(401, "Invalid credentials")
                     /\ session' = session
          /\ (pc[w] = "login_session" /\ pc'[w] # "login_session")
             => /\ resp'[w].status = 200
                /\ \A i \in DOMAIN session : session[i].token # resp'[w].token]_vars

\* C8, with "the correct password" read as the password of the account find_one
\* returns (the first inserted account of the email): holds in every reachable
\* state.
C8_LoginOnFirstAccount ==
    [][\A w \in Workers :
          /\ (pc[w] = "login_find" /\ pc'[w] # "login_find")
             => IF AccountsOf(req[w].email) # {}
                   /\ CorrectFor(Min(AccountsOf(req[w].email)), req[w].password)
                THEN pc'[w] = "login_session"
                ELSE /\ resp'[w] = HTTPException(401, "Invalid credentials")
                     /\ session' = session
          /\ (pc[w] = "login_session" /\ pc'[w] # "login_session")
             => /\ resp'[w].status = 200
                /\ \A i \in DOMAIN session : session[i].token # resp'[w].token]_vars

\* C9: with db None, login never answers 401 "Invalid credentials",
\* get_user_by_token never answers 401 "Invalid token", and signup never goes on
\* past its uniqueness read as if the email were unregistered.
C9_UnavailableIsHardFailure ==
    ~db => \A w \in Workers :
               /\ pc[w] = "done"
                  => resp[w].detail \notin {"Invalid credentials", "Invalid token"}
               /\ pc[w] # "signup_user"

\* C10: a login against a stored account whose password_hash or salt is
\* missing ends with 401 "Invalid credentials" and inserts no session row.
C10_MalformedIsVerificationFailure ==
    [][\A w \in Workers :
          (/\ pc[w] = "login_find" /\ pc'[w] # "login_find"
           /\ AccountsOf(req[w].email) # {}
           /\ LET u == user[Min(AccountsOf(req[w].email))]
              IN  Get(u, "password_hash") = None \/ Get(u, "salt") = None)
          => /\ pc'[w] = "done"
             /\ resp'[w] = HTTPException(401, "Invalid credentials")
             /\ session' = session]_vars

\* the salts a caller can pass to the hasher: the empty string and drawn values
SaltInputs == {EmptySalt} \cup (1..MaxDraws)

\* C11: for every password p and every salt s, the empty salt included,
\* verify_password(p, hash_password(p, s).hash, s) is true; the two calls of
\* secrets.token_hex, where they happen, return the next two drawn values.
C11_RoundTrip ==
    \A p \in Passwords : \A s \in SaltInputs :
        LET h == hash_password(p, {s}, drawn + 1)
            v == verify_password(p, {h[1]}, {s}, drawn + 2)
        IN  ~v.raised /\ v.value

\* C11 for the salts hash_password does not replace (the non-empty ones), and
\* for the salt hash_password returns: holds in every reachable state.
C11_RoundTripOnUsedSalt ==
    \A p \in Passwords : \A s \in SaltInputs :
        LET h == hash_password(p, {s}, drawn + 1)
            v == verify_password(p, {h[1]}, {h[2]}, drawn + 2)
        IN  /\ ~v.raised /\ v.value
            /\ s # EmptySalt => h[2] = s

\* C12: the user object of every successful signup or login response has no
\* password_hash key and no salt key, and is the stored account otherwise.
C12_ResponseRedacted ==
    \A w \in Workers :
        (pc[w] = "done" /\ "user" \in DOMAIN resp[w])
        => /\ resp[w].status = 200
           /\ "password_hash" \notin DOMAIN resp[w].user
           /\ "salt" \notin DOMAIN resp[w].user
           /\ \E i \in DOMAIN user :
                  /\ {"password_hash", "salt"} \subseteq DOMAIN user[i]
                  /\ resp[w].user = [k \in DOMAIN user[i] \ {"password_hash", "salt"}
                                       |-> user[i][k]]

\* a signup response and a login response are both out
C12_Witness ==
    \E w, v \in Workers :
        /\ w # v
        /\ pc[w] = "done" /\ "user" \in DOMAIN resp[w]
        /\ pc[v] = "done" /\ "user" \in DOMAIN resp[v]
        /\ \E i \in DOMAIN session : session[i].token = resp[w].token /\ i = 1
        /\ \E i \in DOMAIN session :
               /\ session[i].token = resp[v].token
               /\ \E j \in 1..(i - 1) : session[j].user_id = session[i].user_id

\* C13: in every reachable state every membership row has a role in
\* {owner, admin, member}, whatever invite_member body an owner or admin sends.
C13_RoleInSchema ==
    \A i \in DOMAIN membership : membership[i].role \in {"owner", "admin", "member"}

\* C14: no step removes or changes a session row, and after every step the
\* token of every session row issued so far still resolves through
\* get_user_by_token to the user it was issued for; a login adds its own
\* session row after the earlier ones of the account.
C14_TokensStayValid ==
    [][/\ \A i \in DOMAIN session :
              /\ i \in DOMAIN session'
              /\ session'[i] = session[i]
              /\ get_user_by_token({<<Bearer>> \o session[i].token})'
                     = [status |-> 200, detail |-> "", user_id |-> {session[i].user_id}]
       /\ \A w \in Workers :
              (pc[w] = "login_session" /\ pc'[w] = "done")
              => /\ Len(session') = Len(session) + 1
                 /\ session'[Len(session')].user_id = loc[w].user._id]_vars

\* an account holds three sessions, issued by its signup and two later logins
C14_Witness ==
    \E i, j, k \in DOMAIN session :
        /\ i < j /\ j < k
        /\ session[i].user_id = session[j].user_id
        /\ session[j].user_id = session[k].user_id
        /\ \A h \in {i, j, k} :
               get_user_by_token({<<Bearer>> \o session[h].token}).user_id
                   = {session[i].user_id}

\* the rows {org_id: o, user_id: u, role: owner}
OwnerRows(o, u) == {k \in MemberRows(o, u) : membership[k].role = "owner"}

\* C15: for every organization row, either its create_org is still between its
\* two inserts (it has not completed), or the row {org_id, user_id: the
\* creator, role: owner} exists and the creator passes ensure_member for the
\* organization, which is what list_members asks for.
C15_CreatorIsOwner ==
    \A i \in DOMAIN organization :
        LET o == organization[i]._id
            U == organization[i].owner_id
        IN  \/ \E w \in Workers :
                   pc[w] = "org_member" /\ loc[w].org_id = o /\ au[w] = {U}
            \/ /\ OwnerRows(o, U) # {}
               /\ ensure_member(o, U).status = 200
               /\ Val(ensure_member(o, U).mem).role = "owner"

\* the creator of an organization is past the membership check of list_members
\* for it while a user with no row in it has been refused
C15_Witness ==
    \E w, v \in Workers : \E i \in DOMAIN organization :
        /\ pc[w] = "lm_get"
        /\ req[w].org_id = organization[i]._id
        /\ au[w] = {organization[i].owner_id}
        /\ OwnerRows(organization[i]._id, organization[i].owner_id) # {}
        /\ pc[v] = "done"
        /\ resp[v] = HTTPException(403, "Not a member of this organization")
        /\ Len(membership) = 1

\* C16: the existence read of an invite that has passed the role gate either
\* ends the request with {"status": "exists"} and changes no collection, or goes
\* on to the insert for a user who has no row in the org at the read; whichever
\* role the request names, no step removes a membership row or changes its
\* role, and a step that writes the collection appends exactly one row.
C16_ReinviteIsNoOp ==
    [][/\ \A w \in Workers :
              /\ (pc[w] = "inv_exists" /\ pc'[w] = "done")
                 => /\ resp'[w] = [status |-> 200, detail |-> "exists"]
                    /\ \E u \in UserIds : MemberRows(req[w].org_id, u) # {}
                    /\ store' = store
              /\ (pc[w] = "inv_exists" /\ pc'[w] = "inv_insert")
                 => /\ MemberRows(req[w].org_id, req'[w].user_id) = {}
                    /\ store' = store
              /\ (pc[w] = "inv_exists" /\ (\A u \in UserIds : MemberRows(req[w].org_id, u) # {}))
                 => pc'[w] \in {"inv_exists", "done"}
       /\ \A k \in DOMAIN membership :
              k \in DOMAIN membership' /\ membership'[k] = membership[k]
       /\ Len(membership') \in {Len(membership), Len(membership) + 1}]_vars

\* a second invite for a user who was invited with a role outside owner/admin
\* has been answered "exists", and the row still has the role it was inserted with
C16_Witness ==
    \E w \in Workers : \E k \in DOMAIN membership :
        /\ pc[w] = "done"
        /\ resp[w] = [status |-> 200, detail |-> "exists"]
        /\ membership[k].role \notin {"owner", "admin"}
        /\ Cardinality(MemberRows(membership[k].org_id, membership[k].user_id)) = 1
        /\ Len(membership) = 2

\* C17: in every reachable state the user_id of every session row is the _id of
\* an account row of the user collection.
C17_SessionUserExists ==
    \A i \in DOMAIN session : \E j \in DOMAIN user : user[j]._id = session[i].user_id

\* two accounts with different emails each hold the session of their signup
C17_Witness ==
    \E i, k \in DOMAIN session : \E a, b \in DOMAIN user :
        /\ user[a]._id = session[i].user_id
        /\ user[b]._id = session[k].user_id
        /\ Get(user[a], "email") # Get(user[b], "email")

\* the steps that run get_user_by_token or ensure_member
CheckSteps == {"auth", "lm_ensure", "inv_ensure"}

\* C18: a step that runs get_user_by_token or ensure_member changes no
\* collection, whether the check passes or fails; a request is answered 401 or
\* 403 only by such a step, and the steps a request has taken before it are
\* its arrival and such steps, so a rejected request has written nothing.
C18_ChecksAreReadOnly ==
    [][\A w \in Workers :
          /\ (pc[w] \in CheckSteps /\ pc'[w] # pc[w]) => store' = store
          /\ (pc'[w] = "done" /\ pc[w] # "done" /\ resp'[w].status \in {401, 403})
             => pc[w] \in CheckSteps /\ store' = store
          /\ (pc'[w] \in {"lm_ensure", "inv_ensure"} /\ pc[w] # pc'[w]) => pc[w] = "auth"
          /\ (pc'[w] = "auth" /\ pc[w] # "auth") => pc[w] = "idle" /\ store' = store]_vars

\* with rows in every collection, one request has been refused by
\* get_user_by_token and one by ensure_member or the role gate
C18_Witness ==
    \E w, v \in Workers :
        /\ pc[w] = "done" /\ resp[w].status = 401
        /\ pc[v] = "done" /\ resp[v].status = 403
        /\ Len(organization) >= 1
        /\ Len(membership) >= 1

\* C19: a step that writes the membership collection appends one row, and is
\* either the second insert of a create_org, the row being {the new org, the
\* requesting user, owner}, or the insert of an invite_member whose caller's
\* row in the same org, as read at the role gate, has role owner or admin; a
\* handler past the role gate holds such a row, which is still stored.
C19_InsertsAreAuthorized ==
    [][/\ membership' # membership
          => /\ Len(membership') = Len(membership) + 1
             /\ SubSeq(membership', 1, Len(membership)) = membership
             /\ LET row == membership'[Len(membership')]
                IN  \E w \in Workers :
                        \/ /\ pc[w] = "org_member" /\ pc'[w] = "done"
                           /\ row.org_id = loc[w].org_id
                           /\ \E i \in DOMAIN organization :
                                  /\ organization[i]._id = row.org_id
                                  /\ organization[i].owner_id = row.user_id
                                  /\ MemberRows(row.org_id, row.user_id) = {}
                           /\ row.user_id = Val(au[w])
                           /\ row.role = "owner"
                        \/ /\ pc[w] = "inv_insert" /\ pc'[w] = "done"
                           /\ row.org_id = req[w].org_id
                           /\ loc[w].mem.org_id = row.org_id
                           /\ loc[w].mem.user_id = Val(au[w])
                           /\ loc[w].mem.role \in {"owner", "admin"}
                           /\ \E k \in DOMAIN membership : membership[k] = loc[w].mem
       /\ \A w \in Workers :
              pc'[w] \in {"inv_exists", "inv_insert"}
              => /\ loc'[w].mem.org_id = req'[w].org_id
                 /\ loc'[w].mem.user_id = Val(au'[w])
                 /\ loc'[w].mem.role \in {"owner", "admin"}
                 /\ \E k \in DOMAIN membership' : membership'[k] = loc'[w].mem]_vars

\* the creator of an org has invited a user as member, and that user's own
\* invite has been refused at the role gate
C19_Witness ==
    \E w \in Workers :
        /\ pc[w] = "done"
        /\ Len(membership) >= 2
        /\ resp[w] = HTTPException(403, "Insufficient role")
        /\ \E k \in DOMAIN membership : membership[k].role = "member"
        /\ \E k \in DOMAIN membership : membership[k].role = "owner"

SubRows(o) == {i \in DOMAIN subscription : subscription[i].org_id = o}

\* at most one worker is inside a handler: the requests are not interleaved
NonInterleaved == Cardinality({w \in Workers : pc[w] \notin {"idle", "done"}}) <= 1

\* each org has at most one subscription row; a subscribe past its read holds
\* what the store holds: the org's only row, or that the org has none
OneSubscriptionPerOrg ==
    /\ \A o \in OrgIds : Cardinality(SubRows(o)) <= 1
    /\ \A w \in Workers :
           /\ pc[w] = "sub_update"
              => /\ SubRows(req[w].org_id) = {loc[w].sub._id}
                 /\ subscription[loc[w].sub._id] = loc[w].sub
           /\ pc[w] = "sub_insert" => SubRows(req[w].org_id) = {}

\* the write of a subscribe: the row read gets the request's plan_key and
\* status active, or a row {org_id, plan_key, active} is appended; no other
\* step writes the collection, and every row's status is active
SubscribeWrites ==
    /\ \A w \in Workers :
           /\ (pc[w] = "sub_update" /\ pc'[w] = "done")
              => /\ loc[w].sub.org_id = req[w].org_id
                 /\ DOMAIN subscription' = DOMAIN subscription
                 /\ \A i \in DOMAIN subscription :
                        subscription'[i]
                            = IF i = loc[w].sub._id
                              THEN [subscription[i] EXCEPT !.plan_key = req[w].plan_key]
                              ELSE subscription[i]
                 /\ resp'[w].status = 200 /\ resp'[w].id = loc[w].sub._id
           /\ (pc[w] = "sub_insert" /\ pc'[w] = "done")
              => /\ subscription' = Append(subscription,
                        [_id |-> Len(subscription) + 1, org_id |-> req[w].org_id,
                         plan_key |-> req[w].plan_key, status |-> "active",
                         provider |-> "internal"])
                 /\ resp'[w].status = 200 /\ resp'[w].id = Len(subscription) + 1
    /\ subscription' # subscription
       => \E w \in Workers : pc[w] \in {"sub_update", "sub_insert"} /\ pc'[w] = "done"
    /\ \A i \in DOMAIN subscription' : subscription'[i].status = "active"

\* C20: in every behaviour whose subscribe requests are not interleaved, each
\* org has at most one subscription row in every state, and a subscribe writes
\* that row: after its write the org's row has the request's plan_key and
\* status active, and it stays so until the next subscribe for the org writes.
\* (With the read and the insert as separate steps, two concurrent first
\* subscribes for one org leave two rows: C20_Witness.)
C20_SequentialSubscribes ==
    /\ ([]NonInterleaved) => []OneSubscriptionPerOrg
    /\ [][SubscribeWrites]_vars

\* two concurrent first subscribes for one org have both inserted a row
C20_Witness ==
    \E i, j \in DOMAIN subscription :
        /\ i # j
        /\ subscription[i].org_id = subscription[j].org_id
        /\ \A w \in Workers :
               pc[w] = "done" /\ resp[w].status = 200 /\ "updated" \notin DOMAIN resp[w]

\* a later subscribe has changed the plan_key of the org's only row
C20_SequentialWitness ==
    /\ \A o \in OrgIds : Cardinality(SubRows(o)) <= 1
    /\ \E w \in Workers :
           /\ pc[w] = "done" /\ "updated" \in DOMAIN resp[w]
           /\ subscription[resp[w].id].plan_key = "pro"
    /\ \A w \in Workers : pc[w] \in {"idle", "done"}

====
